---- MODULE Spec2Model ----
(***************************************************************************)
(* A model of the CerebrasChat streaming client                            *)
(* (src/services/cerebrasService.ts).                                      *)
(*                                                                         *)
(* Text is a sequence of one-character strings.  The response body is a   *)
(* sequence of bytes; ASCII bytes are written as their character, the      *)
(* two-byte UTF-8 character U+00E9 is the bytes "xC3" "xA9" and decodes to *)
(* the character "E9".  A JSON payload is written with three symbols:      *)
(*   JsonOpen   for  {"choices":[{"delta":{"content":"                     *)
(*   JsonClose  for  "}}]}                                                 *)
(*   JsonEmpty  for  {}                                                    *)
(* so that `JsonOpen c1 .. cn JsonClose` is the payload whose              *)
(* choices[0].delta.content is the string c1..cn.                          *)
(*                                                                         *)
(* Four specifications share the module:                                   *)
(*   Spec         one call of sendMessageToCerebrasStream                  *)
(*   SpecFilter   removeThinkingTags on bounded inputs                     *)
(*   SpecPayload  the construction of the request's messages payload       *)
(*   SpecApp      the App component: the session store, its handlers, the  *)
(*                send flow and the local cache (src/unnamed/part_000)     *)
(***************************************************************************)
EXTENDS Integers, Sequences, FiniteSets, TLC

VARIABLES
    \* ---- sendMessageToCerebrasStream (Spec) ----
    pc,                 \* position of the async function
    envKey,             \* process.env[CEREBRAS_API_KEY_ENV_VAR] is set
    serviceInitialized, \* module state, line 8
    cerebrasApiKey,     \* module state, line 7: "null" or "key"
    script,             \* the lines the server sends (ghost: how the body was built)
    trunc,              \* the body lacks the last line terminator (ghost)
    stream,             \* the response body, bytes
    pos,                \* bytes handed out by reader.read() so far
    utf8Pending,        \* TextDecoder's state: a lead byte awaits its continuation
    buffer,             \* line 113
    fullResponseText,   \* line 112
    chunks,             \* the arguments of the onChunk calls, in call order
    errors,             \* the arguments of the onError calls, in call order
    result,             \* what the promise resolved to
    outcome,            \* "pending" | "returned" | "rejected"
    failure,            \* ghost: which failure the environment injected
    thrownMessage,      \* ghost: error.message of the error that reached the catch
    \* ---- removeThinkingTags (SpecFilter) ----
    fPhase, fPieces, fInput, fOut, fOut2,
    \* ---- messages payload (SpecPayload) ----
    pPhase, pHistory, pUserInput, pFile, messagesPayload,
    \* ---- the App component (SpecApp) ----
    appPhase,           \* "off" | "boot" (mounted, effects not yet run) | "running" | "crashed"
    sessions,           \* useState, line 9
    activeSessionId,    \* useState, line 10: an id, or NoId for null
    isLoading,          \* useState, line 11
    appServiceInitialized, \* useState, line 12 (the component's serviceInitialized)
    errorMessage,       \* useState, line 14: a text, or NoError for null
    storedSessions,     \* localStorage['chatSessionsCerebras']
    storedActive,       \* localStorage['activeSessionIdCerebras']
    now,                \* what the last call of Date.now() returned
    inflight,           \* the calls of handleSendMessage suspended at line 169
    limits,             \* ghost: how many events and how many sends this run explores
    events,             \* ghost: the creations, deletions and reloads so far
    sends,              \* ghost: the accepted send requests so far
    ignored             \* ghost: the handler that ran last was a send request it ignored

sendVars == <<pc, envKey, serviceInitialized, cerebrasApiKey, script, trunc, stream,
              pos, utf8Pending, buffer, fullResponseText, chunks, errors, result,
              outcome, failure, thrownMessage>>
filterVars == <<fPhase, fPieces, fInput, fOut, fOut2>>
payloadVars == <<pPhase, pHistory, pUserInput, pFile, messagesPayload>>
appVars == <<appPhase, sessions, activeSessionId, isLoading, appServiceInitialized,
             errorMessage, storedSessions, storedActive, now, inflight, limits,
             events, sends, ignored>>
vars == <<sendVars, filterVars, payloadVars, appVars>>

(***************************************************************************)
(* Bounds                                                                  *)
(***************************************************************************)
MaxItems == 3
MaxWindow == 2
MaxPieces == 4
MaxHist == 2

(***************************************************************************)
(* Text helpers                                                            *)
(***************************************************************************)
\* the concatenation of a sequence of texts (by halves)
RECURSIVE Concat(_)
Concat(ss) ==
    IF ss = <<>> THEN <<>>
    ELSE IF Len(ss) = 1 THEN ss[1]
    ELSE LET h == Len(ss) \div 2
         IN  Concat(SubSeq(ss, 1, h)) \o Concat(SubSeq(ss, h + 1, Len(ss)))

\* String.prototype.toLowerCase, on the letters the model uses
Lower(c) ==
    CASE c = "T" -> "t" [] c = "H" -> "h" [] c = "I" -> "i"
      [] c = "N" -> "n" [] c = "K" -> "k" [] OTHER -> c

\* the characters String.prototype.trim strips
WhiteSpace == {" ", "\n", "\r", "\t"}

\* String.prototype.trim
Trim(text) ==
    LET keep == {i \in 1..Len(text) : text[i] \notin WhiteSpace}
    IN  IF keep = {} THEN <<>>
        ELSE LET lo == CHOOSE i \in keep : \A j \in keep : i <= j
                 hi == CHOOSE i \in keep : \A j \in keep : i >= j
             IN  SubSeq(text, lo, hi)

\* String.prototype.startsWith
StartsWith(text, pre) ==
    /\ Len(pre) <= Len(text)
    /\ \A k \in 1..Len(pre) : text[k] = pre[k]

\* a variant of MatchAt: the regular expressions without the i flag
MatchAt_CaseSensitive(text, i, pat) ==
    /\ i + Len(pat) - 1 <= Len(text)
    /\ \A k \in 1..Len(pat) : text[i + k - 1] = pat[k]

\* pat (lower case) occurs in text at index i, letter case ignored (regex flag i)
MatchAt(text, i, pat) ==
    /\ i + Len(pat) - 1 <= Len(text)
    /\ \A k \in 1..Len(pat) : Lower(text[i + k - 1]) = pat[k]

\* the least index >= i where pat occurs, 0 when there is none
FindFrom(text, i, pat) ==
    LET hits == {j \in i..Len(text) : MatchAt(text, j, pat)}
    IN  IF hits = {} THEN 0 ELSE CHOOSE j \in hits : \A k \in hits : j <= k

ThinkOpen == <<"<", "t", "h", "i", "n", "k", ">">>
ThinkClose == <<"<", "/", "t", "h", "i", "n", "k", ">">>

(***************************************************************************)
(* removeThinkingTags, lines 41-46                                         *)
(***************************************************************************)
\* .replace(/<think>[\s\S]*?<\/think>/gi, ''): leftmost match first, the shortest
\* span from it, then on from the end of the match
RECURSIVE RemoveClosedSpansFrom(_, _)
RemoveClosedSpansFrom(text, i) ==
    LET o == FindFrom(text, i, ThinkOpen)
    IN  IF o = 0 THEN SubSeq(text, i, Len(text))
        ELSE LET c == FindFrom(text, o + Len(ThinkOpen), ThinkClose)
             IN  IF c = 0 THEN SubSeq(text, i, Len(text))
                 ELSE SubSeq(text, i, o - 1)
                        \o RemoveClosedSpansFrom(text, c + Len(ThinkClose))

RemoveClosedSpans(text) == RemoveClosedSpansFrom(text, 1)

\* .replace(/<think>[\s\S]*/gi, ''): from the first opening tag to the end
RemoveOpenTail(text) ==
    LET o == FindFrom(text, 1, ThinkOpen)
    IN  IF o = 0 THEN text ELSE SubSeq(text, 1, o - 1)

\* a variant of removeThinkingTags: trim() called before the replacements
removeThinkingTags_TrimFirst(text) == RemoveOpenTail(RemoveClosedSpans(Trim(text)))

removeThinkingTags(text) == Trim(RemoveOpenTail(RemoveClosedSpans(text)))

(***************************************************************************)
(* SpecFilter: removeThinkingTags applied to an input, then to its own     *)
(* output.  The input is a concatenation of at most MaxPieces pieces, or   *)
(* one of the inputs the specification's examples name.                    *)
(***************************************************************************)
PText == <<"a">>
PSpace == <<" ", "\n">>
POpen == ThinkOpen
PClose == ThinkClose
POpenUpper == <<"<", "T", "H", "I", "N", "K", ">">>
PCloseMixed == <<"<", "/", "T", "h", "i", "n", "k", ">">>
PPartialHead == <<"<", "t", "h", "i">>
PPartialTail == <<"n", "k", ">">>

Pieces == {PText, PSpace, POpen, PClose, POpenUpper, PCloseMixed,
           PPartialHead, PPartialTail}

\* the examples: "a<think>x</think>b", "a<think>unterminated", "plain"
ExampleSpan == <<<<"a">>, POpen, <<"x">>, PClose, <<"b">>>>
ExampleUnterminated ==
    <<<<"a">>, POpen, <<"u", "n", "t", "e", "r", "m", "i", "n", "a", "t", "e", "d">>>>
ExamplePlain == <<<<"p", "l", "a", "i", "n">>>>

FilterInputs ==
    UNION {[1..k -> Pieces] : k \in 0..MaxPieces}
        \cup {ExampleSpan, ExampleUnterminated, ExamplePlain}

FilterIdle ==
    /\ fPhase = "off" /\ fPieces = <<>> /\ fInput = <<>>
    /\ fOut = <<>> /\ fOut2 = <<>>

InitFilterVars ==
    /\ fPhase = "input"
    /\ fPieces \in FilterInputs
    /\ fInput = Concat(fPieces)
    /\ fOut = <<>>
    /\ fOut2 = <<>>

\* filter(x)
FilterOnce ==
    /\ fPhase = "input"
    /\ fOut' = removeThinkingTags(fInput)
    /\ fPhase' = "once"
    /\ UNCHANGED <<fPieces, fInput, fOut2>>

\* filter(filter(x))
FilterTwice ==
    /\ fPhase = "once"
    /\ fOut2' = removeThinkingTags(fOut)
    /\ fPhase' = "twice"
    /\ UNCHANGED <<fPieces, fInput, fOut>>

(***************************************************************************)
(* SpecPayload: the messages payload of a request, lines 64-79             *)
(***************************************************************************)
\* enum MessageRole
MessageRole == {"user", "model", "system", "error"}
MessageTexts == {"hi", "there"}
Messages == [role : MessageRole, text : MessageTexts]
Histories == UNION {[1..k -> Messages] : k \in 0..MaxHist}

NoFile == [kind |-> "none"]
FileAttachments ==
    {[kind |-> "file", type |-> t, name |-> "f", content |-> "c"] :
        t \in {"image/", "text/", "application/"}}

\* a variant of transformMessagesForCerebras: the test made on the user role
transformMessagesForCerebras_UserTest(messages) ==
    [i \in 1..Len(messages) |->
        [role |-> IF messages[i].role = "user" THEN "user" ELSE "assistant",
         content |-> messages[i].text]]

\* lines 34-39
transformMessagesForCerebras(messages) ==
    [i \in 1..Len(messages) |->
        [role |-> IF messages[i].role = "model" THEN "assistant" ELSE "user",
         content |-> messages[i].text]]

\* lines 64-73: the user text, behind the attachment's header, content and separator
requestContent(userInput, fileAttachment) ==
    IF fileAttachment.kind = "none" THEN <<userInput>>
    ELSE IF fileAttachment.type = "image/"
    THEN <<"image header", fileAttachment.name, fileAttachment.type,
           fileAttachment.content, "---", userInput>>
    ELSE IF fileAttachment.type = "text/"
    THEN <<"text header", fileAttachment.name, fileAttachment.content, "---", userInput>>
    ELSE <<"file header", fileAttachment.name, fileAttachment.type, "---", userInput>>

\* lines 75-79
BuildMessagesPayload(history, userInput, fileAttachment) ==
    <<[role |-> "system", content |-> "DEFAULT_SYSTEM_PROMPT"]>>
        \o transformMessagesForCerebras(history)
        \o <<[role |-> "user", content |-> requestContent(userInput, fileAttachment)]>>

PayloadIdle ==
    /\ pPhase = "off" /\ pHistory = <<>> /\ pUserInput = "hi"
    /\ pFile = NoFile /\ messagesPayload = <<>>

InitPayloadVars ==
    /\ pPhase = "input"
    /\ pHistory \in Histories
    /\ pUserInput \in MessageTexts
    /\ pFile \in FileAttachments \cup {NoFile}
    /\ messagesPayload = <<>>

BuildPayload ==
    /\ pPhase = "input"
    /\ messagesPayload' = BuildMessagesPayload(pHistory, pUserInput, pFile)
    /\ pPhase' = "built"
    /\ UNCHANGED <<pHistory, pUserInput, pFile>>

(***************************************************************************)
(* The event stream: bytes, lines, payloads                                *)
(***************************************************************************)
DataPrefix == <<"d", "a", "t", "a", ":", " ">>
DoneToken == <<"[", "D", "O", "N", "E", "]">>
JsonOpen == "{choices[0].delta.content:"
JsonClose == "}"
JsonEmpty == "{}"
JsonSymbols == {JsonOpen, JsonClose, JsonEmpty}
EAcuteBytes == <<"xC3", "xA9">>
EAcute == <<"E9">>

\* what a server sends, line by line: a line with a content delta ("text", "open",
\* "close"), the sentinel line, a line whose payload does not parse, and
\* "nocontent": a line whose object has no choices, the blank line that ends an
\* event, and a line whose content is the empty string
ItemKinds == {"text", "open", "close", "done", "malformed", "nocontent"}

\* the content delta a line of this kind carries (as text), <<>> when it carries none
ItemContent(kind) ==
    CASE kind = "text" -> EAcute
      [] kind = "open" -> ThinkOpen
      [] kind = "close" -> ThinkClose
      [] OTHER -> <<>>

\* the bytes of an item of this kind, terminators included; the sentinel line
\* ends in CR LF
ItemBytes(kind) ==
    CASE kind = "text" -> DataPrefix \o <<JsonOpen>> \o EAcuteBytes \o <<JsonClose, "\n">>
      [] kind = "open" -> DataPrefix \o <<JsonOpen>> \o ThinkOpen \o <<JsonClose, "\n">>
      [] kind = "close" -> DataPrefix \o <<JsonOpen>> \o ThinkClose \o <<JsonClose, "\n">>
      [] kind = "done" -> DataPrefix \o DoneToken \o <<"\r", "\n">>
      [] kind = "malformed" -> DataPrefix \o <<JsonOpen>> \o EAcuteBytes \o <<"\n">>
      [] OTHER -> DataPrefix \o <<JsonEmpty, "\n", "\n">>
                    \o DataPrefix \o <<JsonOpen, JsonClose, "\n">>

Scripts == UNION {[1..k -> ItemKinds] : k \in 0..MaxItems}

\* the body of a response: the lines of the script, the last line terminator cut
\* off when cut
StreamOf(items, cut) ==
    LET all == Concat([i \in 1..Len(items) |-> ItemBytes(items[i])])
    IN  IF cut THEN SubSeq(all, 1, Len(all) - 1) ELSE all

\* what the decoder emits at byte b, when a lead byte is (not) awaiting its
\* continuation: a malformed sequence decodes to U+FFFD
DecodeByte(awaiting, b) ==
    IF awaiting
    THEN IF b = "xA9" THEN EAcute
         ELSE IF b = "xC3" THEN <<"FFFD">>
         ELSE <<"FFFD", b>>
    ELSE IF b = "xC3" THEN <<>>
         ELSE IF b = "xA9" THEN <<"FFFD">>
         ELSE <<b>>

\* TextDecoder.decode(value, {stream: true}), line 119: a lead byte at the end of
\* a window is kept for the next call
TextDecode(pending, bytes) ==
    [text |-> Concat([i \in 1..Len(bytes) |->
                 DecodeByte(IF i = 1 THEN pending ELSE bytes[i - 1] = "xC3", bytes[i])]),
     pending |-> IF bytes = <<>> THEN pending ELSE bytes[Len(bytes)] = "xC3"]

\* buffer.split('\n'), line 120
RECURSIVE SplitLines(_)
SplitLines(text) ==
    LET nl == {i \in 1..Len(text) : text[i] = "\n"}
    IN  IF nl = {} THEN <<text>>
        ELSE LET k == CHOOSE i \in nl : \A j \in nl : i <= j
             IN  <<SubSeq(text, 1, k - 1)>> \o SplitLines(SubSeq(text, k + 1, Len(text)))

\* JSON.parse(jsonData) and the reads of lines 131-133: ok is FALSE when the parse
\* throws, content is choices[0].delta.content when the object has one
JSONParse(jsonData) ==
    IF jsonData = <<JsonEmpty>>
    THEN [ok |-> TRUE, hasContent |-> FALSE, content |-> <<>>]
    ELSE IF /\ Len(jsonData) >= 2
            /\ jsonData[1] = JsonOpen
            /\ jsonData[Len(jsonData)] = JsonClose
            /\ \A i \in 2..(Len(jsonData) - 1) : jsonData[i] \notin JsonSymbols
    THEN [ok |-> TRUE, hasContent |-> TRUE,
          content |-> SubSeq(jsonData, 2, Len(jsonData) - 1)]
    ELSE [ok |-> FALSE, hasContent |-> FALSE, content |-> <<>>]

\* a variant of IsSentinel: the sentinel is not looked for
IsSentinel_Ignored(jsonData) == FALSE

\* line 126: the payload is the sentinel
IsSentinel(jsonData) == Trim(jsonData) = DoneToken

\* a variant of ContentOf: a payload that does not parse is taken as plain text
ContentOf_RawOnFailure(jsonData) ==
    LET parsed == JSONParse(jsonData)
    IN  IF ~parsed.ok THEN jsonData
        ELSE IF parsed.hasContent THEN parsed.content ELSE <<>>

\* lines 129-141: the content delta of a payload, <<>> when the line is skipped
\* (the parse throws, or the object has no choices[0].delta.content, or the
\* content is the empty string)
ContentOf(jsonData) ==
    LET parsed == JSONParse(jsonData)
    IN  IF parsed.ok /\ parsed.hasContent THEN parsed.content ELSE <<>>

\* a variant of ChunkArgument: the callback gets the new fragment only
ChunkArgument_Fragment(full, content) == removeThinkingTags(content)

\* lines 134-136: the argument of onChunk, given the text so far and the new delta
ChunkArgument(full, content) == removeThinkingTags(full \o content)

\* a variant of FinalText: the accumulated text is returned as it is
FinalText_Unfiltered(full) == full

\* lines 127 and 146: the value the send returns
FinalText(full) == removeThinkingTags(full)

\* lines 122-143: the loop over the complete lines of a window.  returned is TRUE
\* when the loop left the function at the sentinel (line 127).
RECURSIVE ProcessLines(_, _, _, _)
ProcessLines(lines, i, full, out) ==
    IF i > Len(lines) - 1 THEN [returned |-> FALSE, full |-> full, chunks |-> out]
    ELSE LET line == Trim(lines[i])
         IN  IF ~StartsWith(line, DataPrefix) THEN ProcessLines(lines, i + 1, full, out)
             ELSE LET jsonData == SubSeq(line, Len(DataPrefix) + 1, Len(line))
                      content == ContentOf(jsonData)
                  IN  IF IsSentinel(jsonData)
                      THEN [returned |-> TRUE, full |-> full, chunks |-> out]
                      ELSE IF content # <<>>
                      THEN ProcessLines(lines, i + 1, full \o content,
                               Append(out, ChunkArgument(full, content)))
                      ELSE ProcessLines(lines, i + 1, full, out)

\* a variant of KeepFragment: the unterminated fragment is dropped
KeepFragment_Dropped(lines) == <<>>

\* line 144: what the buffer keeps for the next read
KeepFragment(lines) == lines[Len(lines)]

\* lines 119-144: one pass of the read loop over the window `value`
ReadStep(st, value) ==
    LET dec == TextDecode(st.utf8Pending, value)
        lines == SplitLines(st.buffer \o dec.text)
        r == ProcessLines(lines, 1, st.full, st.chunks)
    IN  [utf8Pending |-> dec.pending,
         buffer |-> IF r.returned THEN st.buffer ELSE KeepFragment(lines),
         full |-> r.full,
         chunks |-> r.chunks,
         returned |-> r.returned]

\* the state of the loop before the first read, lines 110-113
FreshReader == [utf8Pending |-> FALSE, buffer |-> <<>>, full |-> <<>>,
                chunks |-> <<>>, returned |-> FALSE]

(***************************************************************************)
(* Failures.  An error message is a sequence of words; String.includes is  *)
(* the occurrence of a word, toLowerCase acts on each word.                *)
(***************************************************************************)
LowerWord(w) ==
    CASE w = "Unauthorized" -> "unauthorized"
      [] w = "Quota" -> "quota"
      [] w = "Failed to fetch" -> "failed to fetch"
      [] OTHER -> w

\* message.includes(word)
Includes(message, word) == \E i \in 1..Len(message) : message[i] = word

\* message.toLowerCase()
ToLowerCase(message) == [i \in 1..Len(message) |-> LowerWord(message[i])]

\* a variant of ClassifyError: quota tested before authorization
ClassifyError_QuotaFirst(message) ==
    IF message # <<>> /\ Includes(message, "Failed to fetch")
    THEN [kind |-> "cannot reach", detail |-> <<>>]
    ELSE IF message # <<>> /\ Includes(ToLowerCase(message), "quota")
    THEN [kind |-> "quota", detail |-> <<>>]
    ELSE IF /\ message # <<>>
            /\ \/ Includes(ToLowerCase(message), "unauthorized")
               \/ Includes(message, "401")
    THEN [kind |-> "authorization", detail |-> <<>>]
    ELSE [kind |-> "generic", detail |-> message]

\* lines 150-160: the message handed to onError
ClassifyError(message) ==
    IF message # <<>> /\ Includes(message, "Failed to fetch")
    THEN [kind |-> "cannot reach", detail |-> <<>>]
    ELSE IF /\ message # <<>>
            /\ \/ Includes(ToLowerCase(message), "unauthorized")
               \/ Includes(message, "401")
    THEN [kind |-> "authorization", detail |-> <<>>]
    ELSE IF message # <<>> /\ Includes(ToLowerCase(message), "quota")
    THEN [kind |-> "quota", detail |-> <<>>]
    ELSE [kind |-> "generic", detail |-> message]

\* line 56
NotInitializedError == [kind |-> "not initialized", detail |-> <<>>]
\* line 60
NoKeyError == [kind |-> "no key", detail |-> <<>>]

\* what the environment can answer
Statuses == {"401", "429", "500"}
StatusTexts == {<<>>, <<"Unauthorized">>}
ServerDetails == {<<>>, <<"Unauthorized">>, <<"quota">>, <<"Quota">>,
                  <<"unauthorized", "quota">>, <<"server error">>}
ErrorBodies == {[json |-> FALSE, message |-> <<>>]}
                  \cup {[json |-> TRUE, message |-> m] : m \in ServerDetails}
FetchErrors == {<<"Failed to fetch">>}
TransportErrors == {<<"network error">>}

\* lines 102-103: the message of the error thrown for a non-success status.
\* errorData is the parsed body, or {message: statusText} when the body is no
\* JSON; its message is used when it is not empty.
ApiErrorMessage(status, statusText, body) ==
    LET errorData == IF body.json THEN body.message ELSE statusText
    IN  <<"API error:", status>> \o errorData
\* line 107
NoBodyMessage == <<"no body">>

(***************************************************************************)
(* Spec: one call of sendMessageToCerebrasStream                           *)
(***************************************************************************)
SendIdle ==
    /\ pc = "off" /\ envKey = FALSE /\ serviceInitialized = FALSE
    /\ cerebrasApiKey = "null" /\ script = <<>> /\ trunc = FALSE /\ stream = <<>>
    /\ pos = 0 /\ utf8Pending = FALSE /\ buffer = <<>> /\ fullResponseText = <<>>
    /\ chunks = <<>> /\ errors = <<>> /\ result = <<>> /\ outcome = "pending"
    /\ failure = "none" /\ thrownMessage = <<>>

InitSendVars ==
    /\ pc = "idle"
    /\ envKey \in BOOLEAN
    /\ serviceInitialized = FALSE
    /\ cerebrasApiKey = "null"
    /\ script = <<>> /\ trunc = FALSE /\ stream = <<>> /\ pos = 0
    /\ utf8Pending = FALSE /\ buffer = <<>> /\ fullResponseText = <<>>
    /\ chunks = <<>> /\ errors = <<>> /\ result = <<>> /\ outcome = "pending"
    /\ failure = "none" /\ thrownMessage = <<>>

\* lines 10-17
getApiKey == IF envKey THEN "key" ELSE "null"

\* lines 19-27, called by the application at startup
InitializeCerebrasService ==
    /\ pc = "idle"
    /\ cerebrasApiKey' = getApiKey
    /\ serviceInitialized' = (getApiKey # "null")
    /\ UNCHANGED <<pc, envKey, script, trunc, stream, pos, utf8Pending, buffer,
                   fullResponseText, chunks, errors, result, outcome, failure,
                   thrownMessage>>

\* `return x` of the async function
Return(text) ==
    /\ result' = text
    /\ outcome' = "returned"
    /\ pc' = "done"

\* a variant of Catch: the text received before the failure is returned
Catch_ReturnsPartial(message) ==
    /\ errors' = Append(errors, ClassifyError(message))
    /\ thrownMessage' = message
    /\ Return(removeThinkingTags(fullResponseText))

\* a variant of Catch: the failure is reported and the request is issued again
Catch_Retries(message) ==
    /\ errors' = Append(errors, ClassifyError(message))
    /\ thrownMessage' = message
    /\ pc' = "fetching"
    /\ UNCHANGED <<result, outcome>>

\* lines 148-163: the catch block
Catch(message) ==
    /\ errors' = Append(errors, ClassifyError(message))
    /\ thrownMessage' = message
    /\ Return(<<>>)

\* lines 55-99: the checks of the service, then the request is issued
SendStart ==
    /\ pc = "idle"
    /\ LET key == IF serviceInitialized THEN cerebrasApiKey ELSE getApiKey
           inited == serviceInitialized \/ key # "null"
       IN  /\ cerebrasApiKey' = key
           /\ serviceInitialized' = inited
           /\ IF ~inited
              THEN /\ errors' = Append(errors, NotInitializedError)
                   /\ failure' = "not initialized"
                   /\ Return(<<>>)
              ELSE IF key = "null"
              THEN /\ errors' = Append(errors, NoKeyError)
                   /\ failure' = "not initialized"
                   /\ Return(<<>>)
              ELSE /\ pc' = "fetching"
                   /\ UNCHANGED <<errors, failure, result, outcome>>
    /\ UNCHANGED <<envKey, script, trunc, stream, pos, utf8Pending, buffer,
                   fullResponseText, chunks, thrownMessage>>

\* line 91: fetch rejects
FetchFails ==
    /\ pc = "fetching"
    /\ \E m \in FetchErrors :
        /\ failure' = "network"
        /\ Catch(m)
    /\ UNCHANGED <<envKey, serviceInitialized, cerebrasApiKey, script, trunc, stream,
                   pos, utf8Pending, buffer, fullResponseText, chunks>>

\* lines 101-104: a response with a non-success status
ResponseNotOk ==
    /\ pc = "fetching"
    /\ \E status \in Statuses, statusText \in StatusTexts, body \in ErrorBodies :
        /\ failure' = "status"
        /\ Catch(ApiErrorMessage(status, statusText, body))
    /\ UNCHANGED <<envKey, serviceInitialized, cerebrasApiKey, script, trunc, stream,
                   pos, utf8Pending, buffer, fullResponseText, chunks>>

\* lines 106-108: a response without a body
ResponseNoBody ==
    /\ pc = "fetching"
    /\ failure' = "no body"
    /\ Catch(NoBodyMessage)
    /\ UNCHANGED <<envKey, serviceInitialized, cerebrasApiKey, script, trunc, stream,
                   pos, utf8Pending, buffer, fullResponseText, chunks>>

\* lines 110-113: a success response, whose body the server fills with a script
ResponseOk ==
    /\ pc = "fetching"
    /\ \E items \in Scripts, cut \in BOOLEAN :
        /\ cut => items # <<>>
        /\ script' = items
        /\ trunc' = cut
        /\ stream' = StreamOf(items, cut)
    /\ pos' = 0
    /\ utf8Pending' = FALSE
    /\ buffer' = <<>>
    /\ fullResponseText' = <<>>
    /\ pc' = "streaming"
    /\ UNCHANGED <<envKey, serviceInitialized, cerebrasApiKey, chunks, errors, result,
                   outcome, failure, thrownMessage>>

\* the sizes of the window a read can deliver: one byte, MaxWindow bytes, or all
\* the rest of the body
Windows == {n \in 1..(Len(stream) - pos) : n \in {1, MaxWindow, Len(stream) - pos}}

\* lines 116-144: reader.read() delivers a window of the body
Read ==
    /\ pc = "streaming"
    /\ \E n \in Windows :
        LET st == [utf8Pending |-> utf8Pending, buffer |-> buffer,
                   full |-> fullResponseText, chunks |-> chunks, returned |-> FALSE]
            nx == ReadStep(st, SubSeq(stream, pos + 1, pos + n))
        IN  /\ pos' = pos + n
            /\ utf8Pending' = nx.utf8Pending
            /\ buffer' = nx.buffer
            /\ fullResponseText' = nx.full
            /\ chunks' = nx.chunks
            /\ IF nx.returned
               THEN Return(FinalText(nx.full))
               ELSE UNCHANGED <<pc, result, outcome>>
    /\ UNCHANGED <<envKey, serviceInitialized, cerebrasApiKey, script, trunc, stream,
                   errors, failure, thrownMessage>>

\* lines 116-117 and 146: reader.read() reports the end of the body
ReadEnd ==
    /\ pc = "streaming"
    /\ pos = Len(stream)
    /\ Return(FinalText(fullResponseText))
    /\ UNCHANGED <<envKey, serviceInitialized, cerebrasApiKey, script, trunc, stream,
                   pos, utf8Pending, buffer, fullResponseText, chunks, errors, failure,
                   thrownMessage>>

\* line 116: reader.read() rejects, the connection broke
ReadFails ==
    /\ pc = "streaming"
    /\ \E m \in TransportErrors :
        /\ failure' = "transport"
        /\ Catch(m)
    /\ UNCHANGED <<envKey, serviceInitialized, cerebrasApiKey, script, trunc, stream,
                   pos, utf8Pending, buffer, fullResponseText, chunks>>

(***************************************************************************)
(* SpecApp: the App component, src/unnamed/part_000 lines 8-204, with the  *)
(* send guard of the input bar (src/components/ChatInputBar.tsx).          *)
(*                                                                         *)
(* A handler started by a user event reads the state of the latest render: *)
(* React commits the state updates of an event handler before the next     *)
(* event is dispatched, so each such handler is one action on the          *)
(* committed state, followed by the effects of lines 49-57.  The           *)
(* continuation of handleSendMessage after its await keeps the values its  *)
(* closure captured when the call started (sessions, activeSessionId,      *)
(* text), while its functional updates setSessions(prev => ..) act on the  *)
(* committed state.  Ids are the numbers Date.now() returns (toString is   *)
(* one-to-one); createdAt and the timestamps, which nothing reads, are     *)
(* left out.  A session carries a ghost serial number that tells the       *)
(* session objects apart.                                                  *)
(***************************************************************************)
\* a run explores many store events around few sends, or many sends around few
\* store events
MaxEvents == 4
MaxSends == 2
MinEvents == 1
MinSends == 1
MaxClock == 2
Limits == {[events |-> MaxEvents, sends |-> MinSends],
           [events |-> MinEvents, sends |-> MaxSends]}

\* line 198: substring(0, 30)
TitleLimit == 30

NoId == 0
NoError == <<>>

\* the texts the input bar hands over; it trims them (ChatInputBar.tsx line 26)
Hello == <<"H", "e", "l", "l", "o">>
LongText == [i \in 1..(TitleLimit + 1) |-> "x"]
\* the requests of the input bar: a text, an attachment alone, or nothing
SendInputs ==
    {[text |-> Hello, file |-> FALSE], [text |-> LongText, file |-> FALSE],
     [text |-> <<>>, file |-> TRUE], [text |-> <<>>, file |-> FALSE]}

\* the content deltas of the responses the service answers with: "He" then
\* "llo", or an opening tag; NextDeltas is what can follow the text received
NextDeltas(full) ==
    IF full = <<>> THEN {<<"H", "e">>, ThinkOpen}
    ELSE IF full = <<"H", "e">> THEN {<<"l", "l", "o">>}
    ELSE {}

\* line 191
NoResponseText == <<"No response received.">>
\* line 137
AppNotInitializedText == <<"AI service not initialized. Check the API key.">>

\* the text handed to onError (cerebrasService.ts lines 150-161)
ErrorText(message) ==
    LET e == ClassifyError(message) IN <<e.kind>> \o e.detail

\* line 76: errorMessage.includes("API"), by the texts of cerebrasService.ts
\* lines 155 and 159 and of line 137 (no send of the App fails with the text
\* of line 157, which embeds the name of the key variable)
MentionsAPI(text) ==
    /\ text # NoError
    /\ text[1] \in {"cannot reach", "quota"} \cup {AppNotInitializedText[1]}

\* line 65-70: `Новый чат ${sessions.length + 1}`
DefaultTitle(n) == <<"New chat ", ToString(n)>>

\* line 197
AutoTitle(text) ==
    LET t == Trim(text)
    IN  SubSeq(t, 1, IF Len(t) < TitleLimit THEN Len(t) ELSE TitleLimit)
            \o (IF Len(t) > TitleLimit THEN <<".", ".", ".">> ELSE <<>>)

\* Array.prototype.findIndex on the session ids, from 1; 0 when there is none
FindIndex(ss, sessionId) ==
    LET at == {i \in 1..Len(ss) : ss[i].id = sessionId}
    IN  IF at = {} THEN 0 ELSE CHOOSE i \in at : \A j \in at : i <= j

SessionIds(ss) == {ss[i].id : i \in 1..Len(ss)}

\* the last messages of the sessions: the arguments an update function can get
LastMessages(ss) ==
    {ss[i].messages[Len(ss[i].messages)] : i \in {j \in 1..Len(ss) : ss[j].messages # <<>>}}

\* lines 64-70: the new session object; n is sessions.length of the closure
NewSession(n, serial, t) ==
    [id |-> t, serial |-> serial, title |-> DefaultTitle(n + 1), messages |-> <<>>]

\* what a call of Date.now() can return: the value of the last call, or a later one
Clock == {t \in {now, now + 1} : t <= MaxClock}

\* lines 103-105
renameSession(ss, sessionId, newTitle) ==
    [i \in 1..Len(ss) |->
        IF ss[i].id = sessionId
        THEN [ss[i] EXCEPT !.title = IF Trim(newTitle) # <<>> THEN Trim(newTitle) ELSE @]
        ELSE ss[i]]

\* a variant of addMessageToSession: the message is put in front
addMessageToSession_Prepend(ss, sessionId, message) ==
    [i \in 1..Len(ss) |->
        IF ss[i].id = sessionId
        THEN [ss[i] EXCEPT !.messages = <<message>> \o @]
        ELSE ss[i]]

\* lines 107-113
addMessageToSession(ss, sessionId, message) ==
    [i \in 1..Len(ss) |->
        IF ss[i].id = sessionId
        THEN [ss[i] EXCEPT !.messages = Append(@, message)]
        ELSE ss[i]]

\* a variant of updateLastMessageInSession: the session id is not tested
updateLastMessageInSession_AllSessions(ss, sessionId, updateFn) ==
    [i \in 1..Len(ss) |->
        IF Len(ss[i].messages) > 0
        THEN LET last == Len(ss[i].messages)
             IN  [ss[i] EXCEPT !.messages[last] = updateFn[ss[i].messages[last]]]
        ELSE ss[i]]

\* a variant of updateLastMessageInSession: the first message is replaced
updateLastMessageInSession_First(ss, sessionId, updateFn) ==
    [i \in 1..Len(ss) |->
        IF ss[i].id = sessionId /\ Len(ss[i].messages) > 0
        THEN [ss[i] EXCEPT !.messages[1] = updateFn[ss[i].messages[Len(ss[i].messages)]]]
        ELSE ss[i]]

\* lines 115-127; updateFn is a function on the last messages
updateLastMessageInSession(ss, sessionId, updateFn) ==
    [i \in 1..Len(ss) |->
        IF ss[i].id = sessionId /\ Len(ss[i].messages) > 0
        THEN LET last == Len(ss[i].messages)
             IN  [ss[i] EXCEPT !.messages[last] = updateFn[ss[i].messages[last]]]
        ELSE ss[i]]

\* lines 132-133 and 166-167: the history of the call, from the session the
\* closure found
HistoryForApi(messages) ==
    SelectSeq(SubSeq(messages, 1, Len(messages) - 1),
              LAMBDA m : m.role \in {"user", "model"})

\* lines 173-175: the update of onChunk
ChunkUpdate(ss, cleanedText) ==
    [msg \in LastMessages(ss) |-> [msg EXCEPT !.text = cleanedText, !.isLoading = TRUE]]

\* lines 177-180 (and 184-187): the update of onError
ErrorUpdate(ss, errorText) ==
    [msg \in LastMessages(ss) |->
        [msg EXCEPT !.text = errorText, !.role = "error", !.isLoading = FALSE]]

\* a variant of FinalUpdate: no fallback text
FinalUpdate_NoFallback(ss, fullModelResponse) ==
    [msg \in LastMessages(ss) |->
        [msg EXCEPT
            !.text = IF fullModelResponse # <<>> THEN fullModelResponse ELSE msg.text,
            !.isLoading = FALSE,
            !.role = IF msg.role = "error" THEN "error" ELSE "model"]]

\* lines 189-194: the update of the finally block
FinalUpdate(ss, fullModelResponse) ==
    [msg \in LastMessages(ss) |->
        [msg EXCEPT
            !.text = IF fullModelResponse # <<>> THEN fullModelResponse
                     ELSE IF msg.role = "error" THEN msg.text ELSE NoResponseText,
            !.isLoading = FALSE,
            !.role = IF msg.role = "error" THEN "error" ELSE "model"]]

\* a call of handleSendMessage suspended at its await: what its closure holds
\* (sessionId, text, file, snapshot: lines 129-133), the history it handed over
\* (line 166), fullModelResponse (line 164), and of the service the text
\* received so far and the number of chunks
Call(sessionId, text, file, snapshot) ==
    [sessionId |-> sessionId, text |-> text, file |-> file, snapshot |-> snapshot,
     history |-> HistoryForApi(snapshot.messages), full |-> <<>>,
     fullModelResponse |-> <<>>, nchunks |-> 0]

\* what the cache can hold when the page is first opened
InitialCaches ==
    {[kind |-> "absent", list |-> <<>>], [kind |-> "corrupt", list |-> <<>>],
     [kind |-> "list", list |-> <<>>]}

AppIdle ==
    /\ appPhase = "off" /\ sessions = <<>> /\ activeSessionId = NoId
    /\ isLoading = FALSE /\ appServiceInitialized = FALSE /\ errorMessage = NoError
    /\ storedSessions = [kind |-> "absent", list |-> <<>>] /\ storedActive = NoId
    /\ now = 1 /\ inflight = <<>> /\ events = 0 /\ ignored = FALSE
    /\ limits = [events |-> 0, sends |-> 0] /\ sends = 0

\* lines 9-14: the state of the first render, over any cache
InitAppState ==
    /\ appPhase = "boot" /\ sessions = <<>> /\ activeSessionId = NoId
    /\ isLoading = FALSE /\ appServiceInitialized = FALSE /\ errorMessage = NoError
    /\ storedSessions \in InitialCaches /\ storedActive = NoId
    /\ now = 1 /\ inflight = <<>> /\ events = 0 /\ ignored = FALSE
    /\ sends = 0

InitAppVars == InitAppState /\ limits \in Limits

\* JSON.stringify of a message: a property whose value is undefined (the
\* fileAttachment of a message sent without a file, line 153) is left out
StringifyMessage(m) ==
    [k \in DOMAIN m \ (IF m.file THEN {} ELSE {"file"}) |-> m[k]]

\* line 50: JSON.stringify(sessions)
StringifySessions(ss) ==
    [i \in 1..Len(ss) |->
        [ss[i] EXCEPT !.messages = [n \in 1..Len(@) |-> StringifyMessage(@[n])]]]

\* a message read from the parsed text: a property that is not there reads as
\* undefined
ParseMessage(j) ==
    [id |-> j.id, role |-> j.role, text |-> j.text, isLoading |-> j.isLoading,
     file |-> IF "file" \in DOMAIN j THEN j.file ELSE FALSE]

\* line 23: JSON.parse(storedSessions), of a text that is a list
ParseSessions(list) ==
    [i \in 1..Len(list) |->
        [list[i] EXCEPT !.messages = [n \in 1..Len(@) |-> ParseMessage(@[n])]]]

\* a variant of SessionToLoad: the first session is always taken
SessionToLoad_First(parsedSessions, lastSessionId) == parsedSessions[1]

\* line 28: parsedSessions.find(s => s.id === lastSessionId) || parsedSessions[0]
SessionToLoad(parsedSessions, lastSessionId) ==
    IF FindIndex(parsedSessions, lastSessionId) # 0
    THEN parsedSessions[FindIndex(parsedSessions, lastSessionId)]
    ELSE parsedSessions[1]

\* lines 49-57: the effects that follow a render
Persist ==
    /\ storedSessions' = [kind |-> "list", list |-> StringifySessions(sessions')]
    /\ storedActive' = IF activeSessionId' # NoId THEN activeSessionId' ELSE storedActive

\* lines 18-35: the effect of the first render.  JSON.parse throws on a cache
\* that is no JSON text: the effect ends there, the later effects of the
\* component are not run and React unmounts the tree.
Startup ==
    /\ appPhase = "boot"
    /\ InitializeCerebrasService
    /\ appServiceInitialized' = (getApiKey # "null")
    /\ ignored' = FALSE
    /\ UNCHANGED <<isLoading, inflight, limits, events, sends>>
    /\ IF storedSessions.kind = "corrupt"
       THEN /\ appPhase' = "crashed"
            /\ UNCHANGED <<sessions, activeSessionId, errorMessage, storedSessions,
                           storedActive, now>>
       ELSE /\ appPhase' = "running"
            /\ IF storedSessions.kind = "list" /\ Len(storedSessions.list) > 0
               THEN LET parsedSessions == ParseSessions(storedSessions.list)
                    IN  /\ sessions' = parsedSessions
                        /\ activeSessionId' =
                              SessionToLoad(parsedSessions, storedActive).id
                        /\ UNCHANGED <<errorMessage, now>>
               ELSE \E t \in Clock :
                    /\ now' = t
                    /\ sessions' = <<NewSession(0, events, t)>>
                    /\ activeSessionId' = t
                    /\ errorMessage' = NoError
            /\ Persist

\* lines 63-73, from the button of line 224 (disabled while isLoading)
CreateNewSession ==
    /\ appPhase = "running"
    /\ ~isLoading
    /\ events < limits.events
    /\ events' = events + 1
    /\ UNCHANGED <<limits, sends>>
    /\ errorMessage' = NoError
    /\ \E t \in Clock :
        /\ now' = t
        /\ sessions' = <<NewSession(Len(sessions), events + 1, t)>> \o sessions
        /\ activeSessionId' = t
    /\ ignored' = FALSE
    /\ UNCHANGED <<appPhase, isLoading, appServiceInitialized, inflight>>
    /\ UNCHANGED sendVars
    /\ Persist

\* lines 75-80
switchSession(sessionId) ==
    /\ errorMessage' = IF MentionsAPI(errorMessage) THEN NoError ELSE errorMessage
    /\ activeSessionId' = sessionId

\* switchSession, from a click on a session of the list (line 238)
SwitchSession ==
    /\ appPhase = "running"
    /\ \E sessionId \in SessionIds(sessions) : switchSession(sessionId)
    /\ ignored' = FALSE
    /\ UNCHANGED <<appPhase, sessions, isLoading, appServiceInitialized, now, inflight,
                   limits, events, sends>>
    /\ UNCHANGED sendVars
    /\ Persist

\* lines 82-101
deleteSession(sessionId) ==
    LET remainingSessions == SelectSeq(sessions, LAMBDA s : s.id # sessionId)
        deletedIndexInOriginal == FindIndex(sessions, sessionId)
    IN  IF activeSessionId = sessionId
        THEN IF Len(remainingSessions) > 0
             THEN LET newActiveSession ==
                          IF deletedIndexInOriginal > 1
                          THEN sessions[deletedIndexInOriginal - 1]
                          ELSE IF deletedIndexInOriginal + 1 <= Len(sessions)
                          THEN sessions[deletedIndexInOriginal + 1]
                          ELSE remainingSessions[1]
                  IN  /\ sessions' = remainingSessions
                      /\ activeSessionId' = newActiveSession.id
                      /\ UNCHANGED <<errorMessage, now>>
             ELSE \E t \in Clock :
                  /\ now' = t
                  /\ sessions' = <<NewSession(Len(sessions), events + 1, t)>>
                                     \o remainingSessions
                  /\ activeSessionId' = t
                  /\ errorMessage' = NoError
        ELSE /\ sessions' = remainingSessions
             /\ UNCHANGED <<activeSessionId, errorMessage, now>>

\* deleteSession, from the delete button of a session of the list (line 247)
DeleteSession ==
    /\ appPhase = "running"
    /\ events < limits.events
    /\ events' = events + 1
    /\ UNCHANGED <<limits, sends>>
    /\ \E sessionId \in SessionIds(sessions) : deleteSession(sessionId)
    /\ ignored' = FALSE
    /\ UNCHANGED <<appPhase, isLoading, appServiceInitialized, inflight>>
    /\ UNCHANGED sendVars
    /\ Persist

\* a variant of SendGuard: the in-flight flag is not tested
SendGuard_NoFlag(text, file) ==
    /\ Trim(text) # <<>> \/ file
    /\ activeSessionId # NoId
    /\ Trim(text) # <<>> \/ file

\* a variant of SendGuard: a request with nothing to send is not tested for
SendGuard_NoBlankTest(text, file) ==
    /\ ~isLoading
    /\ activeSessionId # NoId /\ ~isLoading

\* ChatInputBar.tsx line 25 and line 130: the request passes both guards
SendGuard(text, file) ==
    /\ (Trim(text) # <<>> \/ file) /\ ~isLoading
    /\ activeSessionId # NoId /\ ~isLoading
    /\ Trim(text) # <<>> \/ file

\* lines 129-169: handleSendMessage up to its await.  The request is ignored
\* (lines 130 and 133), or answered by an error message when there is no API key
\* (lines 135-142), or the two messages are appended and the request is issued.
handleSendMessage(text, file) ==
    LET found == FindIndex(sessions, activeSessionId)
    IN  IF ~SendGuard(text, file) \/ found = 0
        THEN /\ ignored' = TRUE
             /\ UNCHANGED <<sessions, isLoading, appServiceInitialized, errorMessage,
                            inflight, sends, now>>
             /\ UNCHANGED sendVars
        ELSE LET currentSessionForHistory == sessions[found]
             IN  \E t \in Clock :
                 /\ sends < limits.sends
                 /\ sends' = sends + 1
                 /\ now' = t
                 /\ ignored' = FALSE
                 /\ IF ~appServiceInitialized /\ getApiKey = "null"
                    THEN /\ cerebrasApiKey' = "null"
                         /\ serviceInitialized' = FALSE
                         /\ errorMessage' = AppNotInitializedText
                         /\ sessions' = addMessageToSession(sessions, activeSessionId,
                                [id |-> t, role |-> "error",
                                 text |-> AppNotInitializedText, isLoading |-> FALSE,
                                 file |-> FALSE])
                         /\ UNCHANGED <<isLoading, appServiceInitialized, inflight>>
                         /\ UNCHANGED <<pc, envKey, script, trunc, stream, pos,
                                        utf8Pending, buffer, fullResponseText, chunks,
                                        errors, result, outcome, failure, thrownMessage>>
                    ELSE LET userMessage ==
                                 [id |-> t, role |-> "user", text |-> text,
                                  isLoading |-> FALSE, file |-> file]
                             modelMessage ==
                                 [id |-> t + 1, role |-> "model", text |-> <<>>,
                                  isLoading |-> TRUE, file |-> FALSE]
                         IN  /\ appServiceInitialized' = TRUE
                             /\ isLoading' = TRUE
                             /\ errorMessage' = NoError
                             /\ sessions' = addMessageToSession(
                                    addMessageToSession(sessions, activeSessionId,
                                                        userMessage),
                                    activeSessionId, modelMessage)
                             /\ inflight' = Append(inflight,
                                    Call(activeSessionId, text, file,
                                         currentSessionForHistory))
                             /\ UNCHANGED sendVars

\* a request of the input bar
HandleSendMessage ==
    /\ appPhase = "running"
    /\ UNCHANGED <<appPhase, activeSessionId, limits, events>>
    /\ \E input \in SendInputs : handleSendMessage(input.text, input.file)
    /\ Persist

\* calls without the i-th
Without(calls, i) == SubSeq(calls, 1, i - 1) \o SubSeq(calls, i + 1, Len(calls))

\* lines 171-175: the service decoded a content delta and calls onChunk with the
\* filtered text received so far (cerebrasService.ts lines 131-134)
onChunk(i, delta) ==
    LET call == inflight[i]
        cleanedText == ChunkArgument(call.full, delta)
    IN  /\ sessions' = updateLastMessageInSession(sessions, call.sessionId,
                           ChunkUpdate(sessions, cleanedText))
        /\ inflight' = [inflight EXCEPT ![i] =
                           [call EXCEPT !.full = @ \o delta,
                                        !.fullModelResponse = cleanedText,
                                        !.nchunks = @ + 1]]

OnChunk ==
    /\ appPhase = "running"
    /\ \E i \in 1..Len(inflight) : \E delta \in NextDeltas(inflight[i].full) :
           onChunk(i, delta)
    /\ ignored' = FALSE
    /\ UNCHANGED <<appPhase, activeSessionId, isLoading, appServiceInitialized,
                   errorMessage, now, limits, events, sends>>
    /\ UNCHANGED sendVars
    /\ Persist

\* lines 188-201: the finally block of the call, on the session list ss
Finally(call, ss) ==
    LET finalized == updateLastMessageInSession(ss, call.sessionId,
                         FinalUpdate(ss, call.fullModelResponse))
        currentSessionToUpdate == call.snapshot
    IN  IF Len(currentSessionToUpdate.messages) <= 2 /\ Trim(call.text) # <<>>
        THEN renameSession(finalized, call.sessionId, AutoTitle(call.text))
        ELSE finalized

\* a variant of Returns: the in-flight flag is not cleared
Returns_KeepsFlag(i) ==
    /\ sessions' = Finally(inflight[i], sessions)
    /\ inflight' = Without(inflight, i)
    /\ UNCHANGED <<isLoading, errorMessage>>

\* the awaited call i ends without an error, by the sentinel or the end of the
\* body (cerebrasService.ts lines 127 and 146); then lines 188-201
Returns(i) ==
    /\ sessions' = Finally(inflight[i], sessions)
    /\ inflight' = Without(inflight, i)
    /\ isLoading' = FALSE
    /\ UNCHANGED errorMessage

SendReturns ==
    /\ appPhase = "running"
    /\ \E i \in 1..Len(inflight) : Returns(i)
    /\ ignored' = FALSE
    /\ UNCHANGED <<appPhase, activeSessionId, appServiceInitialized, now, limits,
                   events, sends>>
    /\ UNCHANGED sendVars
    /\ Persist

\* the failures the service can catch for a call: fetch fails before any chunk,
\* the body can break at any point
FailuresOf(call) == TransportErrors \cup (IF call.nchunks = 0 THEN FetchErrors ELSE {})

\* the service catches a failure of call i and calls onError once
\* (cerebrasService.ts lines 148-163): lines 176-180, then lines 188-201
Fails(i, message) ==
    LET call == inflight[i]
        errorText == ErrorText(message)
        reported == updateLastMessageInSession(sessions, call.sessionId,
                        ErrorUpdate(sessions, errorText))
    IN  /\ errorMessage' = errorText
        /\ sessions' = Finally(call, reported)
        /\ inflight' = Without(inflight, i)
        /\ isLoading' = FALSE

SendFails ==
    /\ appPhase = "running"
    /\ \E i \in 1..Len(inflight) : \E message \in FailuresOf(inflight[i]) :
           Fails(i, message)
    /\ ignored' = FALSE
    /\ UNCHANGED <<appPhase, activeSessionId, appServiceInitialized, now, limits,
                   events, sends>>
    /\ UNCHANGED sendVars
    /\ Persist

\* the page is reloaded: the component's state and the module's state start
\* anew, the suspended calls are gone, the cache stays
Reload ==
    /\ appPhase \in {"running", "crashed"}
    /\ events < limits.events
    /\ events' = events + 1
    /\ UNCHANGED <<limits, sends>>
    /\ appPhase' = "boot"
    /\ sessions' = <<>>
    /\ activeSessionId' = NoId
    /\ isLoading' = FALSE
    /\ appServiceInitialized' = FALSE
    /\ errorMessage' = NoError
    /\ inflight' = <<>>
    /\ ignored' = FALSE
    /\ serviceInitialized' = FALSE
    /\ cerebrasApiKey' = "null"
    /\ UNCHANGED <<storedSessions, storedActive, now>>
    /\ UNCHANGED <<pc, envKey, script, trunc, stream, pos, utf8Pending, buffer,
                   fullResponseText, chunks, errors, result, outcome, failure,
                   thrownMessage>>

(***************************************************************************)
(* The specifications                                                      *)
(***************************************************************************)
Init == InitSendVars /\ FilterIdle /\ PayloadIdle /\ AppIdle

Next ==
    \/ InitializeCerebrasService /\ UNCHANGED <<filterVars, payloadVars, appVars>>
    \/ SendStart /\ UNCHANGED <<filterVars, payloadVars, appVars>>
    \/ FetchFails /\ UNCHANGED <<filterVars, payloadVars, appVars>>
    \/ ResponseNotOk /\ UNCHANGED <<filterVars, payloadVars, appVars>>
    \/ ResponseNoBody /\ UNCHANGED <<filterVars, payloadVars, appVars>>
    \/ ResponseOk /\ UNCHANGED <<filterVars, payloadVars, appVars>>
    \/ Read /\ UNCHANGED <<filterVars, payloadVars, appVars>>
    \/ ReadEnd /\ UNCHANGED <<filterVars, payloadVars, appVars>>
    \/ ReadFails /\ UNCHANGED <<filterVars, payloadVars, appVars>>

Spec == Init /\ [][Next]_vars

InitFilter == SendIdle /\ InitFilterVars /\ PayloadIdle /\ AppIdle

NextFilter ==
    \/ FilterOnce /\ UNCHANGED <<sendVars, payloadVars, appVars>>
    \/ FilterTwice /\ UNCHANGED <<sendVars, payloadVars, appVars>>

SpecFilter == InitFilter /\ [][NextFilter]_vars

InitPayload == SendIdle /\ FilterIdle /\ InitPayloadVars /\ AppIdle

NextPayload == BuildPayload /\ UNCHANGED <<sendVars, filterVars, appVars>>

SpecPayload == InitPayload /\ [][NextPayload]_vars

InitApp == InitSendVars /\ FilterIdle /\ PayloadIdle /\ InitAppVars

NextApp ==
    \/ Startup /\ UNCHANGED <<filterVars, payloadVars>>
    \/ CreateNewSession /\ UNCHANGED <<filterVars, payloadVars>>
    \/ SwitchSession /\ UNCHANGED <<filterVars, payloadVars>>
    \/ DeleteSession /\ UNCHANGED <<filterVars, payloadVars>>
    \/ HandleSendMessage /\ UNCHANGED <<filterVars, payloadVars>>
    \/ OnChunk /\ UNCHANGED <<filterVars, payloadVars>>
    \/ SendReturns /\ UNCHANGED <<filterVars, payloadVars>>
    \/ SendFails /\ UNCHANGED <<filterVars, payloadVars>>
    \/ Reload /\ UNCHANGED <<filterVars, payloadVars>>

SpecApp == InitApp /\ [][NextApp]_vars

\* the awaited call of the service settles (the request completes, fails, or
\* its stream ends) and handleSendMessage runs on: the call in flight leaves
\* while the page stays.  The steps of NextApp that do this are those of
\* SendReturns and SendFails, which are enabled whenever a call is in flight.
Settles ==
    /\ appPhase = "running" /\ inflight # <<>>
    /\ inflight' = <<>> /\ UNCHANGED appPhase

\* the runs followed to their end: one send around LiveEvents store events
LiveEvents == 2
InitAppLive ==
    /\ InitSendVars /\ FilterIdle /\ PayloadIdle /\ InitAppState
    /\ limits = [events |-> LiveEvents, sends |-> MinSends]

SpecAppLive == InitAppLive /\ [][NextApp]_vars /\ WF_inflight(Settles)

(***************************************************************************)
(***************************************************************************)
(* SpecSwitch: switchSession as a function of the store, applied to any    *)
(* id.  The stores are lists of one or two sessions with different ids,    *)
(* one of them active.                                                     *)
(***************************************************************************)
MaxSwitchId == 3
SwitchIds == 1..MaxSwitchId

SwitchMessages ==
    {<<>>, <<[id |-> 1, role |-> "user", text |-> Hello, isLoading |-> FALSE,
              file |-> FALSE]>>}

SwitchSessions ==
    [id : SwitchIds, serial : {0}, title : {DefaultTitle(1)}, messages : SwitchMessages]

SwitchStores ==
    {<<s>> : s \in SwitchSessions}
        \cup {p \in SwitchSessions \X SwitchSessions : p[1].id # p[2].id}

InitSwitch ==
    /\ SendIdle /\ FilterIdle /\ PayloadIdle
    /\ appPhase = "running"
    /\ sessions \in SwitchStores
    /\ activeSessionId \in SessionIds(sessions)
    /\ errorMessage \in {NoError, AppNotInitializedText, ErrorText(<<"network error">>)}
    /\ storedSessions = [kind |-> "list", list |-> StringifySessions(sessions)]
    /\ storedActive = activeSessionId
    /\ isLoading = FALSE /\ appServiceInitialized = FALSE
    /\ now = 1 /\ inflight = <<>> /\ events = 0 /\ ignored = FALSE
    /\ limits = [events |-> 0, sends |-> 0] /\ sends = 0

\* switchSession is called with an id, of the store or not
SwitchTo ==
    /\ \E sessionId \in SwitchIds : switchSession(sessionId)
    /\ UNCHANGED <<appPhase, sessions, isLoading, appServiceInitialized, now, inflight,
                   limits, events, sends, ignored>>
    /\ Persist

NextSwitch == SwitchTo /\ UNCHANGED <<sendVars, filterVars, payloadVars>>

SpecSwitch == InitSwitch /\ [][NextSwitch]_vars

(* What the script of a body says, line by line (used by the properties;   *)
(* the decoder above never reads it)                                       *)
(***************************************************************************)
\* the offset of the line terminator that ends item k of the script
ItemEnd(items, k) == Len(StreamOf(SubSeq(items, 1, k), FALSE))

\* the items of the script whose last terminator is among the first n bytes of
\* the body
Delivered(items, n) ==
    LET whole == {k \in 1..Len(items) : ItemEnd(items, k) <= n}
    IN  [k \in 1..Cardinality(whole) |-> items[k]]

\* the lines in front of the first sentinel line
UpToDone(items) ==
    LET at == {k \in 1..Len(items) : items[k] = "done"}
    IN  IF at = {} THEN items
        ELSE SubSeq(items, 1, (CHOOSE k \in at : \A j \in at : k <= j) - 1)

HasDone(items) == \E k \in 1..Len(items) : items[k] = "done"

\* the non-empty content deltas the lines carry, in order
DeltasOf(items) ==
    LET carrying == SelectSeq(items, LAMBDA kind : ItemContent(kind) # <<>>)
    IN  [k \in 1..Len(carrying) |-> ItemContent(carrying[k])]

\* for each delta, the filtered concatenation of the deltas up to it
CumulativeCleaned(deltas) ==
    [n \in 1..Len(deltas) |-> removeThinkingTags(Concat(SubSeq(deltas, 1, n)))]

\* the lines that are neither unparsable nor without content
Skippable == {"malformed", "nocontent"}
WithoutSkippable(items) == SelectSeq(items, LAMBDA kind : kind \notin Skippable)

\* the lines decoded when the first n bytes have been read
DecodedLines(n) == UpToDone(Delivered(script, n))

HasBody == pc = "streaming" \/ (pc = "done" /\ failure \in {"none", "transport"})
Completed == pc = "done" /\ failure = "none"

(***************************************************************************)
(* C1  Split invariance: however the body is cut into read windows, the    *)
(* chunks dispatched after the first pos bytes are those a single read of  *)
(* these pos bytes dispatches, and so are the returned text and the        *)
(* decision to stop at the sentinel.                                       *)
(***************************************************************************)
C1_SplitInvariance ==
    HasBody =>
        LET whole == ReadStep(FreshReader, SubSeq(stream, 1, pos))
        IN  /\ chunks = whole.chunks
            /\ fullResponseText = whole.full
            /\ Completed => result = FinalText(whole.full)
            /\ (Completed /\ pos < Len(stream)) => whole.returned

\* a window ended inside the `data: ` prefix after a chunk was dispatched, or
\* inside the sentinel
C1_Witness ==
    /\ pc = "streaming"
    /\ chunks # <<>>
    /\ \/ buffer = <<"d", "a", "t">>
       \/ buffer = DataPrefix \o <<"[", "D", "O">>

(***************************************************************************)
(* C2  Once the bytes of a terminated `data: [DONE]` line have been read,  *)
(* the send has returned without error, and the chunks dispatched are      *)
(* those of the lines in front of the sentinel: none of a later line.      *)
(***************************************************************************)
C2_SentinelEndsSend ==
    (HasBody /\ HasDone(Delivered(script, pos))) =>
        /\ pc = "done"
        /\ outcome = "returned"
        /\ failure = "none"
        /\ errors = <<>>
        /\ chunks = CumulativeCleaned(DeltasOf(UpToDone(script)))
        /\ result = FinalText(Concat(DeltasOf(UpToDone(script))))

\* the window that held the sentinel also held a later line with a delta
C2_Witness ==
    /\ Completed
    /\ Len(script) = 3
    /\ script[1] = "text" /\ script[2] = "done" /\ script[3] = "text"
    /\ pos = Len(stream)
    /\ chunks = <<EAcute>>

(***************************************************************************)
(* C3  Lines whose payload cannot be parsed or carries no content are      *)
(* skipped: the chunks and the result are those of the same body without   *)
(* these lines, and no error is reported.                                  *)
(***************************************************************************)
C3_MalformedSkipped ==
    HasBody =>
        LET clean == ReadStep(FreshReader,
                         StreamOf(WithoutSkippable(Delivered(script, pos)), FALSE))
        IN  /\ chunks = clean.chunks
            /\ fullResponseText = clean.full
            /\ Completed => (errors = <<>> /\ outcome = "returned")
            /\ failure = "transport" => Len(errors) = 1

C3_Witness ==
    /\ Completed
    /\ script = <<"text", "malformed", "text">>
    /\ ~trunc
    /\ chunks = <<EAcute, EAcute \o EAcute>>
    /\ errors = <<>>

(***************************************************************************)
(* C4  The chunk callback has been called once for each content delta      *)
(* decoded so far, in order, the n-th call with removeThinkingTags of the  *)
(* concatenation of the first n deltas.                                    *)
(***************************************************************************)
C4_CumulativeChunks ==
    HasBody => chunks = CumulativeCleaned(DeltasOf(DecodedLines(pos)))

\* the second call got the cumulative text, which differs from the second delta
C4_Witness ==
    /\ pc = "streaming"
    /\ script = <<"text", "text", "open">>
    /\ chunks = <<EAcute, EAcute \o EAcute, EAcute \o EAcute>>

(***************************************************************************)
(* C5  (as amended) A send that ends at the sentinel or at the end of the  *)
(* body returns, without error, removeThinkingTags of the concatenation of *)
(* the deltas of the terminated data lines in front of the sentinel.       *)
(***************************************************************************)
C5_FinalTextOfDecodedLines ==
    Completed =>
        /\ outcome = "returned"
        /\ errors = <<>>
        /\ result = removeThinkingTags(Concat(DeltasOf(DecodedLines(Len(stream)))))

C5_Witness ==
    /\ Completed
    /\ script = <<"text", "open", "text">>
    /\ trunc
    /\ result = EAcute

\* C5 as stated: the result is made of the deltas of all the data lines of the
\* body (here for bodies in which nothing follows the sentinel)
C5_Original ==
    (Completed /\ ~HasDone(SubSeq(script, 1, Len(script) - 1))) =>
        /\ outcome = "returned"
        /\ errors = <<>>
        /\ result = removeThinkingTags(Concat(DeltasOf(script)))

(***************************************************************************)
(* C6  A send that failed has called the error callback exactly once and   *)
(* returned the empty string; no send rejects, and a send that did not     *)
(* fail has not called the error callback.                                 *)
(***************************************************************************)
C6_FailureReportedOnce ==
    /\ outcome # "rejected"
    /\ failure = "none" => errors = <<>>
    /\ failure # "none" =>
        /\ pc = "done"
        /\ outcome = "returned"
        /\ Len(errors) = 1
        /\ result = <<>>

\* a transport error after chunks were delivered
C6_Witness ==
    /\ pc = "done"
    /\ failure = "transport"
    /\ Len(chunks) >= 2
    /\ Len(errors) = 1
    /\ result = <<>>

HasOpenTag(text) ==
    \E i \in 1..(Len(text) - Len(ThinkOpen) + 1) :
        [k \in 1..Len(ThinkOpen) |-> Lower(text[i + k - 1])] = ThinkOpen

\* a from index i on is b from index j on with some characters left out
RECURSIVE EmbedsFrom(_, _, _, _)
EmbedsFrom(a, i, b, j) ==
    IF i > Len(a) THEN TRUE
    ELSE LET hits == {k \in j..Len(b) : b[k] = a[i]}
         IN  /\ hits # {}
             /\ EmbedsFrom(a, i + 1, b, (CHOOSE k \in hits : \A n \in hits : k <= n) + 1)

\* a is b with some characters left out
IsSubsequence(a, b) == EmbedsFrom(a, 1, b, 1)

\* no piece is a part of a tag: the tags of the text are its tag pieces
TagsAreWhole(pieces) ==
    \A i \in 1..Len(pieces) : pieces[i] \notin {PPartialHead, PPartialTail}

\* the pieces outside the spans: an opening tag piece is dropped with all up to
\* the next closing tag piece, or with all the rest when there is none
RECURSIVE OutsideSpans(_, _)
OutsideSpans(pieces, i) ==
    IF i > Len(pieces) THEN <<>>
    ELSE IF pieces[i] \in {POpen, POpenUpper}
    THEN LET closes == {j \in (i + 1)..Len(pieces) : pieces[j] \in {PClose, PCloseMixed}}
         IN  IF closes = {} THEN <<>>
             ELSE OutsideSpans(pieces, (CHOOSE j \in closes : \A k \in closes : j <= k) + 1)
    ELSE <<pieces[i]>> \o OutsideSpans(pieces, i + 1)

(***************************************************************************)
(* C8  removeThinkingTags is idempotent: filter(filter(x)) = filter(x).    *)
(***************************************************************************)
C8_FilterIdempotent == fPhase = "twice" => fOut2 = fOut

\* removing the span joins two parts of a tag into an opening tag, which the
\* second replacement removes
C8_Witness ==
    /\ fPhase = "twice"
    /\ fPieces = <<PPartialHead, POpen, PClose, PPartialTail>>
    /\ fOut = <<>>
    /\ fOut2 = <<>>

(***************************************************************************)
(* C9  The output of removeThinkingTags is the input without its spans     *)
(* (letter case ignored, newlines inside a span allowed), without the tail *)
(* from an unterminated opening tag, trimmed: it has no opening tag, no    *)
(* white space at its ends, keeps the text outside the spans in order, and *)
(* the three examples give "ab", "a" and "plain".                          *)
(***************************************************************************)
C9_FilterRemovesSpans ==
    fPhase # "input" =>
        /\ ~HasOpenTag(fOut)
        /\ fOut # <<>> => (fOut[1] \notin WhiteSpace /\ fOut[Len(fOut)] \notin WhiteSpace)
        /\ IsSubsequence(fOut, fInput)
        /\ ~HasOpenTag(fInput) => fOut = Trim(fInput)
        /\ TagsAreWhole(fPieces) => fOut = Trim(Concat(OutsideSpans(fPieces, 1)))
        /\ fPieces = ExampleSpan => fOut = <<"a", "b">>
        /\ fPieces = ExampleUnterminated => fOut = <<"a">>
        /\ fPieces = ExamplePlain => fOut = <<"p", "l", "a", "i", "n">>

\* a span in upper case holding a newline is removed, the text around it kept
C9_Witness ==
    /\ fPhase = "once"
    /\ fPieces = <<PText, POpenUpper, PSpace, PCloseMixed>>
    /\ fOut = <<"a">>

(***************************************************************************)
(* Properties of the messages payload (SpecPayload)                        *)
(***************************************************************************)
(***************************************************************************)
(* C10  The payload has |h|+2 entries: a system message, one entry per     *)
(* history message in order, with role assistant for the model role and    *)
(* user for every other role, and a final user message; history            *)
(* [model "hi"] and input "there" give the roles system, assistant, user.  *)
(***************************************************************************)
C10_PayloadRoles ==
    pPhase = "built" =>
        LET n == Len(pHistory)
            last == messagesPayload[n + 2]
        IN  /\ Len(messagesPayload) = n + 2
            /\ messagesPayload[1].role = "system"
            /\ \A i \in 1..n :
                /\ messagesPayload[i + 1].role =
                       (IF pHistory[i].role = "model" THEN "assistant" ELSE "user")
                /\ messagesPayload[i + 1].content = pHistory[i].text
            /\ last.role = "user"
            /\ last.content[Len(last.content)] = pUserInput
            /\ pFile = NoFile => last.content = <<pUserInput>>

C10_Witness ==
    /\ pPhase = "built"
    /\ pHistory = <<[role |-> "model", text |-> "hi"]>>
    /\ pUserInput = "there"
    /\ [i \in 1..Len(messagesPayload) |-> messagesPayload[i].role]
           = <<"system", "assistant", "user">>

(***************************************************************************)
(* What the properties of the App say (the handlers above never read       *)
(* these)                                                                  *)
(***************************************************************************)
\* the sessions of ss that are the session object with this serial number
SessionsOf(ss, serial) == {ss[i] : i \in {j \in 1..Len(ss) : ss[j].serial = serial}}

LastMessage(s) == s.messages[Len(s.messages)]

\* the messages of a session that are still being streamed
PendingOf(s) == {k \in 1..Len(s.messages) : s.messages[k].isLoading}

\* the messages that belong to the conversation
ChatMessages(messages) == SelectSeq(messages, LAMBDA m : m.role \in {"user", "model"})

\* the filtered text of the deltas a call has received
CleanedSoFar(call) == removeThinkingTags(call.full)

(***************************************************************************)
(* C11  Whenever the session list is not empty, activeSessionId is the id  *)
(* of a session of the list.                                               *)
(***************************************************************************)
C11_ActiveSessionExists ==
    (appPhase = "running" /\ sessions # <<>>) =>
        activeSessionId \in SessionIds(sessions)

(***************************************************************************)
(* C12  deleteSession on the only session of the store leaves exactly one  *)
(* session, a new one with no messages, and it is the active one.          *)
(***************************************************************************)
C12_DeleteSoleRecreates ==
    [][(DeleteSession /\ Len(sessions) = 1) =>
          /\ Len(sessions') = 1
          /\ sessions'[1].messages = <<>>
          /\ sessions'[1].serial # sessions[1].serial
          /\ activeSessionId' = sessions'[1].id]_vars

(***************************************************************************)
(* C13  At most one send is in flight, and a send request made while one   *)
(* is in flight appends no message and issues no request.                  *)
(***************************************************************************)
C13_OneSendInFlight ==
    [][/\ Len(inflight') <= 1
       /\ (HandleSendMessage /\ inflight # <<>>) =>
              UNCHANGED <<sessions, inflight, isLoading, errorMessage, sends>>]_vars

\* a send request has just been ignored while a send is in flight
C13_Witness == ignored /\ Len(inflight) = 1 /\ isLoading

(***************************************************************************)
(* C14  A non-blank text T of at most 30 characters sent on a session with *)
(* no messages, answered by deltas whose filtered concatenation R is not   *)
(* empty and then the end of the stream, leaves that session with the two  *)
(* messages user T and assistant R (not pending) and with the title T.     *)
(***************************************************************************)
C14_EndToEnd ==
    [][\A i \in 1..Len(inflight) :
          LET call == inflight[i]
          IN  (/\ SendReturns /\ Returns(i)
               /\ call.snapshot.messages = <<>>
               /\ Trim(call.text) # <<>> /\ Len(call.text) <= TitleLimit
               /\ CleanedSoFar(call) # <<>>) =>
                  \A s \in SessionsOf(sessions', call.snapshot.serial) :
                      /\ Len(s.messages) = 2
                      /\ s.messages[1].role = "user"
                      /\ s.messages[1].text = call.text
                      /\ s.messages[2].role = "model"
                      /\ s.messages[2].text = CleanedSoFar(call)
                      /\ ~s.messages[2].isLoading
                      /\ s.title = call.text]_vars

\* "Hello" was answered by "He" then "llo": the session holds the two messages
\* and is titled "Hello"
C14_Witness ==
    /\ inflight = <<>>
    /\ \E i \in 1..Len(sessions) :
        /\ Len(sessions[i].messages) = 2
        /\ sessions[i].messages[1].role = "user"
        /\ sessions[i].messages[1].text = Hello
        /\ sessions[i].messages[2].role = "model"
        /\ sessions[i].messages[2].text = Hello
        /\ ~sessions[i].messages[2].isLoading
        /\ sessions[i].title = Hello

(***************************************************************************)
(* C15  Startup on a cache that is absent, corrupt or empty ends with a    *)
(* store of exactly one new session, which is active.                      *)
(***************************************************************************)
C15_StartupFallsBack ==
    [][(/\ Startup
        /\ storedSessions.kind \in {"absent", "corrupt"} \/ storedSessions.list = <<>>) =>
          /\ appPhase' = "running"
          /\ Len(sessions') = 1
          /\ sessions'[1].messages = <<>>
          /\ activeSessionId' = sessions'[1].id]_vars

(***************************************************************************)
(* C16  The history handed to the service by a send holds every message    *)
(* of the conversation the session held before the send, in order, the     *)
(* most recent assistant reply included.                                   *)
(***************************************************************************)
C16_HistoryIsPriorMessages ==
    \A i \in 1..Len(inflight) :
        inflight[i].history = ChatMessages(inflight[i].snapshot.messages)

(***************************************************************************)
(* C17  When a send completes, the title becomes the first 30 characters   *)
(* of the trimmed user text (with "..." when it was longer) if the session *)
(* then holds at most 2 messages and the text is not blank, and otherwise  *)
(* the title is unchanged.                                                 *)
(***************************************************************************)
C17_RenameOnFirstExchangeOnly ==
    [][\A i \in 1..Len(inflight) :
          LET call == inflight[i]
          IN  (SendReturns \/ SendFails) /\ inflight' = Without(inflight, i) =>
                  \A s \in SessionsOf(sessions', call.snapshot.serial) :
                      \A before \in SessionsOf(sessions, call.snapshot.serial) :
                          s.title = IF Len(s.messages) <= 2 /\ Trim(call.text) # <<>>
                                    THEN AutoTitle(call.text)
                                    ELSE before.title]_vars

(***************************************************************************)
(* C18  After a send that fails, the placeholder has the role error, the   *)
(* error text as its text and is not pending, and the last-error slot      *)
(* holds the same text.                                                    *)
(***************************************************************************)
C18_FailureShowsErrorText ==
    [][\A i \in 1..Len(inflight) : \A message \in FailuresOf(inflight[i]) :
          (SendFails /\ Fails(i, message)) =>
              /\ errorMessage' = ErrorText(message)
              /\ \A s \in SessionsOf(sessions', inflight[i].snapshot.serial) :
                     /\ LastMessage(s).role = "error"
                     /\ LastMessage(s).text = ErrorText(message)
                     /\ ~LastMessage(s).isLoading]_vars

(***************************************************************************)
(* C19  After a send that ends without an error the placeholder is not     *)
(* pending, has the role assistant, and its text is the filtered text      *)
(* received, or the fallback text when that is empty; after each chunk the *)
(* placeholder's text is the filtered text received so far and it is       *)
(* still pending.                                                          *)
(***************************************************************************)
C19_PlaceholderFollowsStream ==
    [][\A i \in 1..Len(inflight) :
          LET call == inflight[i]
          IN  /\ (SendReturns /\ Returns(i)) =>
                    \A s \in SessionsOf(sessions', call.snapshot.serial) :
                        /\ ~LastMessage(s).isLoading
                        /\ LastMessage(s).role = "model"
                        /\ LastMessage(s).text =
                              IF CleanedSoFar(call) # <<>> THEN CleanedSoFar(call)
                              ELSE NoResponseText
              /\ \A delta \in NextDeltas(call.full) :
                    (OnChunk /\ onChunk(i, delta)) =>
                        \A s \in SessionsOf(sessions', call.snapshot.serial) :
                            /\ LastMessage(s).isLoading
                            /\ LastMessage(s).role = "model"
                            /\ LastMessage(s).text =
                                  removeThinkingTags(call.full \o delta)]_vars

\* a send ended with nothing to show: the placeholder holds the fallback text
C19_Witness ==
    /\ inflight = <<>>
    /\ \E i \in 1..Len(sessions) :
        /\ sessions[i].messages # <<>>
        /\ LastMessage(sessions[i]).role = "model"
        /\ LastMessage(sessions[i]).text = NoResponseText
        /\ ~LastMessage(sessions[i]).isLoading

(***************************************************************************)
(* C20  Each session holds at most one pending message, and a message is   *)
(* pending only while a send for its session is in flight.                 *)
(***************************************************************************)
C20_PendingOnlyInFlight ==
    appPhase = "running" =>
        \A k \in 1..Len(sessions) :
            /\ Cardinality(PendingOf(sessions[k])) <= 1
            /\ PendingOf(sessions[k]) # {} =>
                   \E i \in 1..Len(inflight) : inflight[i].sessionId = sessions[k].id

(***************************************************************************)
(* C21  Every chunk update, the error update and the finalization of a     *)
(* send are applied to the session whose id was active when the send       *)
(* started, whichever session is active then; the messages of every other  *)
(* session are unchanged by them.                                          *)
(***************************************************************************)
C21_UpdatesStayInOriginalSession ==
    [][\A i \in 1..Len(inflight) :
          LET call == inflight[i]
              ends == (SendReturns \/ SendFails) /\ inflight' = Without(inflight, i)
              chunk == OnChunk /\ Len(inflight') = Len(inflight) /\ inflight'[i] # call
          IN  (ends \/ chunk) =>
                  /\ Len(sessions') = Len(sessions)
                  /\ \A k \in 1..Len(sessions) :
                        IF sessions[k].id # call.sessionId
                        THEN sessions'[k].messages = sessions[k].messages
                        ELSE sessions[k].messages # <<>> =>
                                 /\ chunk => /\ LastMessage(sessions'[k]).isLoading
                                             /\ LastMessage(sessions'[k]).text =
                                                    inflight'[i].fullModelResponse
                                 /\ ends => ~LastMessage(sessions'[k]).isLoading]_vars

\* a send is in flight and a chunk has arrived on a session that is not the
\* active one, which holds no message
C21_Witness ==
    /\ Len(inflight) = 1
    /\ inflight[1].nchunks > 0
    /\ inflight[1].sessionId # activeSessionId
    /\ \E k \in 1..Len(sessions) :
        /\ sessions[k].id = activeSessionId
        /\ sessions[k].messages = <<>>
    /\ \E k \in 1..Len(sessions) :
        /\ sessions[k].id = inflight[1].sessionId
        /\ LastMessage(sessions[k]).isLoading
        /\ LastMessage(sessions[k]).text = inflight[1].fullModelResponse

(***************************************************************************)
(* C22  deleteSession of the active session, when sessions with another    *)
(* id remain, removes that session and no other, keeps the others in       *)
(* order, and makes active the session just before the removed one if      *)
(* there is one, else the session just after it, which is one of the       *)
(* sessions left.                                                          *)
(***************************************************************************)
C22_DeleteActivePicksNeighbour ==
    [][\A sessionId \in SessionIds(sessions) :
          LET at == FindIndex(sessions, sessionId)
              neighbour == IF at > 1 THEN sessions[at - 1] ELSE sessions[at + 1]
          IN  (/\ DeleteSession /\ deleteSession(sessionId)
               /\ activeSessionId = sessionId
               /\ \E k \in 1..Len(sessions) : sessions[k].id # sessionId) =>
                  /\ sessions' = Without(sessions, at)
                  /\ activeSessionId' = neighbour.id
                  /\ activeSessionId' \in SessionIds(sessions')]_vars

C24_RejectedSendIsNoOp ==
    [][\A input \in SendInputs :
          (/\ HandleSendMessage /\ handleSendMessage(input.text, input.file)
           /\ \/ activeSessionId \notin SessionIds(sessions)
              \/ isLoading
              \/ Trim(input.text) = <<>> /\ ~input.file) =>
              UNCHANGED <<sessions, isLoading, errorMessage, inflight, sends,
                          appServiceInitialized>>]_vars

\* a request has just been ignored while no send is in flight and the active
\* session exists: it had nothing to send
C24_Witness ==
    /\ ignored /\ appPhase = "running"
    /\ inflight = <<>> /\ ~isLoading
    /\ activeSessionId \in SessionIds(sessions)

(***************************************************************************)
(* C25  updateLastMessageInSession replaces the last message of the        *)
(* sessions of the given id by the update of it and nothing else: the      *)
(* earlier messages, the number of messages and the other sessions are     *)
(* unchanged, and nothing changes when no session has the id or the        *)
(* session has no messages.  At every chunk, failure and completion of a   *)
(* send the message changed is the placeholder of that send: the last      *)
(* message of the session, pending, of the role assistant, after the user  *)
(* message of the send.                                                    *)
(***************************************************************************)
C25_UpdateLastOnly ==
    [][\A i \in 1..Len(inflight) :
          LET call == inflight[i]
              ends == (SendReturns \/ SendFails) /\ inflight' = Without(inflight, i)
              chunk == OnChunk /\ Len(inflight') = Len(inflight) /\ inflight'[i] # call
          IN  (ends \/ chunk) =>
                  /\ Len(sessions') = Len(sessions)
                  /\ \A k \in 1..Len(sessions) :
                        LET before == sessions[k].messages
                            after == sessions'[k].messages
                        IN  /\ Len(after) = Len(before)
                            /\ \A n \in 1..(Len(before) - 1) : after[n] = before[n]
                            /\ (sessions[k].id # call.sessionId \/ before = <<>>) =>
                                   after = before
                            /\ (chunk /\ sessions[k].id = call.sessionId
                                      /\ before # <<>>) =>
                                   after[Len(after)] =
                                       [before[Len(before)] EXCEPT
                                           !.text = inflight'[i].fullModelResponse,
                                           !.isLoading = TRUE]
                            /\ after # before =>
                                   /\ before[Len(before)].isLoading
                                   /\ before[Len(before)].role = "model"
                                   /\ Len(before) >= 2
                                   /\ before[Len(before) - 1].role = "user"
                                   /\ before[Len(before) - 1].text = call.text
                                   /\ before[Len(before)].id =
                                          before[Len(before) - 1].id + 1]_vars

\* a chunk has arrived for a send whose session was deleted and created anew
\* with the same id: the new session still has no messages
C25_Witness ==
    /\ Len(inflight) = 1
    /\ inflight[1].nchunks > 0
    /\ \E k \in 1..Len(sessions) :
        /\ sessions[k].id = inflight[1].sessionId
        /\ sessions[k].serial # inflight[1].snapshot.serial
        /\ sessions[k].messages = <<>>

(***************************************************************************)
(* C26  In every step, the messages a session held are still there, in     *)
(* the same order and unchanged, except that the last one may have been    *)
(* replaced in place when none was appended; a session ceases to be in     *)
(* the list only by deleteSession (or when the page is reloaded, which     *)
(* leaves it in the cache).                                                *)
(***************************************************************************)
C26_MessagesOnlyGrow ==
    [][/\ \A k \in 1..Len(sessions) :
            \A s \in SessionsOf(sessions', sessions[k].serial) :
                LET before == sessions[k].messages
                    after == s.messages
                IN  /\ Len(after) >= Len(before)
                    /\ \A n \in 1..(Len(before) - 1) : after[n] = before[n]
                    /\ (Len(after) > Len(before) /\ before # <<>>) =>
                           after[Len(before)] = before[Len(before)]
       /\ (\E k \in 1..Len(sessions) : SessionsOf(sessions', sessions[k].serial) = {}) =>
              (DeleteSession \/ Reload)]_vars

\* a second send on a session: its first exchange is still there, before the
\* user message and the placeholder of the second
C26_Witness ==
    \E k \in 1..Len(sessions) :
        /\ Len(sessions[k].messages) = 4
        /\ sessions[k].messages[1].role = "user"
        /\ sessions[k].messages[2].role = "model"
        /\ ~sessions[k].messages[2].isLoading
        /\ sessions[k].messages[3].role = "user"
        /\ sessions[k].messages[4].isLoading

(***************************************************************************)
(* C27  No two sessions of the list have the same id, and no two messages  *)
(* of a session have the same id.                                          *)
(***************************************************************************)
C27_IdsUnique ==
    /\ \A j, k \in 1..Len(sessions) : sessions[j].id = sessions[k].id => j = k
    /\ \A k \in 1..Len(sessions) :
          \A m, n \in 1..Len(sessions[k].messages) :
              sessions[k].messages[m].id = sessions[k].messages[n].id => m = n

(***************************************************************************)
(* C28  While the application runs the cache holds the text of its         *)
(* session list and the active id; a reload leaves the cache as it is;     *)
(* and a startup that reads a list of sessions from the cache restores     *)
(* the sessions that were written, in order, with the session of the       *)
(* stored id active if a restored session has it, else the first.          *)
(***************************************************************************)
C28_PersistRestoreRoundTrip ==
    [][/\ appPhase' = "running" =>
            /\ storedSessions'.kind = "list"
            /\ ParseSessions(storedSessions'.list) = sessions'
            /\ storedActive' = activeSessionId'
       /\ Reload => UNCHANGED <<storedSessions, storedActive>>
       /\ (Startup /\ storedSessions.kind = "list" /\ storedSessions.list # <<>>) =>
            /\ appPhase' = "running"
            /\ sessions' = ParseSessions(storedSessions.list)
            /\ activeSessionId' =
                  IF storedActive \in SessionIds(sessions') THEN storedActive
                  ELSE sessions'[1].id]_vars

\* the sessions were restored from the cache after a reload in the middle of a
\* send with an attachment: the user message has its attachment, the
\* placeholder is pending and no send is in flight
C28_Witness ==
    /\ appPhase = "running" /\ inflight = <<>> /\ events > 0
    /\ ParseSessions(storedSessions.list) = sessions
    /\ \E k \in 1..Len(sessions) :
        /\ sessions[k].id = activeSessionId
        /\ Len(sessions[k].messages) = 2
        /\ sessions[k].messages[1].file
        /\ sessions[k].messages[2].isLoading

(***************************************************************************)
(* C29  Every send in flight is followed by a state in which no send is    *)
(* in flight, the in-flight flag is clear and the last message of the      *)
(* sessions of the send's id is not pending (there may be none left),      *)
(* unless the page is reloaded first; provided the awaited call settles.   *)
(***************************************************************************)
C29_SendReturnsToIdle ==
    \A id \in 1..MaxClock :
        (\E i \in 1..Len(inflight) : inflight[i].sessionId = id) ~>
            \/ appPhase = "boot"
            \/ /\ inflight = <<>> /\ ~isLoading
               /\ \A k \in 1..Len(sessions) :
                     (sessions[k].id = id /\ sessions[k].messages # <<>>) =>
                         ~LastMessage(sessions[k]).isLoading

\* a send failed and has returned to idle, and its session has been deleted:
\* no session holds a message
C29_Witness ==
    /\ appPhase = "running" /\ sends > 0
    /\ inflight = <<>> /\ ~isLoading
    /\ errorMessage = ErrorText(<<"network error">>)
    /\ \A k \in 1..Len(sessions) : sessions[k].messages = <<>>

(***************************************************************************)
(* C30  The outcome of a send is terminal.  Once the error callback has    *)
(* been called or the send has returned, no step calls the chunk callback  *)
(* or the error callback again or changes what was returned; the step that *)
(* calls the error callback returns in the same breath and dispatches no   *)
(* chunk; and a request is only ever issued by the start of the send, so   *)
(* no send issues a second one.                                            *)
(***************************************************************************)
C30_OutcomeIsTerminal ==
    [][/\ (errors # <<>> \/ outcome = "returned") =>
            UNCHANGED <<chunks, errors, result, outcome, pc>>
       /\ errors' # errors =>
            /\ Len(errors') = 1
            /\ chunks' = chunks
            /\ outcome' = "returned"
            /\ pc' = "done"
       /\ pc' = "fetching" => pc = "idle"]_vars

\* the connection broke after a chunk had been dispatched and before the body
\* was read to its end: the rest of the body was never asked for
C30_Witness ==
    /\ pc = "done"
    /\ outcome = "returned"
    /\ failure = "transport"
    /\ Len(errors) = 1
    /\ chunks # <<>>
    /\ pos < Len(stream)

====
